---- MODULE Spec2Model ----
(***************************************************************************)
(* State-machine model of the sgl-router service-discovery path:           *)
(*   k8s_discovery.rs  the watch driver, its supervising task and the      *)
(*                     bounded command channel                             *)
(*   server.rs         the reconciler task and the admin handlers          *)
(* Strings are sequences of one-character strings, so that formatting a    *)
(* worker URL is a real concatenation.  An Option<T> is a sequence of      *)
(* length 0 (None) or 1 (Some(x)).                                         *)
(***************************************************************************)
EXTENDS Integers, Sequences, FiniteSets, TLC

VARIABLES
    env,              \* process environment: variable name -> Option<String>
    args,             \* arguments the caller passed to Router.__new__
    server,           \* startup: position, ServerConfig, what has been started
    config,           \* K8sDiscoveryConfig handed to the driver
    endpoints,        \* the Endpoints object being rendered (rendering runs)
    new_urls,         \* process_endpoints_change: new_urls of the last event
    known_endpoints,  \* start_k8s_discovery: HashMap name -> EndpointState.urls
    drv_pc,           \* position of the supervising task / driver
    urls_to_add,      \* process_endpoints_change: adds not yet sent
    urls_to_remove,   \* process_endpoints_change: removes not yet sent
    state_urls,       \* Deleted branch: state.urls not yet sent
    queue,            \* mpsc channel contents, oldest first
    rec_pc,           \* position of the reconciler task
    rec_url,          \* url of the add the reconciler is awaiting
    rec_log,          \* what the reconciler logged for its last command
    registry,         \* Router worker_urls: the Ready sequence
    admin,            \* in-flight admin requests, one record per connection
    response,         \* last HTTP response produced by an admin handler
    handled,          \* the request that response answers: its url parameter
                      \* and the registry calls the handler made for it
    received,         \* <<path, worker>> -> requests forwarded to the worker
    inflight,         \* <<handler, worker>> -> forwarded requests not answered yet
    cursor,           \* Router: the round-robin cursor
    sink,             \* sink_handler: position and unread payload chunks
    last_event,       \* the watch event the driver handled last
    batch,            \* commands passed to sender.send for that event, in order
    requested_run,      \* emitted commands of this driver run folded over {}
    requested_all,      \* emitted commands of all driver runs folded over {}
    last_exit,        \* how the driver terminated last: "none", "ok", "err"
    slept,            \* the supervising task slept since that termination
    n_events,         \* watch events delivered so far (counted runs)
    recv_parity       \* parity of the number of commands the reconciler received

vars == <<env, args, server, config, endpoints, new_urls, known_endpoints, drv_pc, urls_to_add,
          urls_to_remove, state_urls, queue, rec_pc, rec_url, rec_log,
          registry, admin, response, handled, received, inflight, cursor, sink,
          last_event, batch, requested_run,
          requested_all, last_exit, slept, n_events, recv_parity>>

-----------------------------------------------------------------------------
(* Option<T> and strings *)

None == <<>>

Some(x) == <<x>>

IsSome(o) == Len(o) = 1

Unwrap(o) == o[1]

Digits == <<"0", "1", "2", "3", "4", "5", "6", "7", "8", "9">>

RECURSIVE NatToString(_)
NatToString(n) ==
    IF n < 10 THEN <<Digits[n + 1]>>
    ELSE NatToString(n \div 10) \o <<Digits[(n % 10) + 1]>>

\* Display of an i32, as format!("{}") prints it.
IntToString(n) == IF n < 0 THEN <<"-">> \o NatToString(0 - n) ELSE NatToString(n)

\* str::is_empty
is_empty(s) == Len(s) = 0

\* str::starts_with(char)
starts_with(s, c) == Len(s) > 0 /\ s[1] = c

-----------------------------------------------------------------------------
(* Inputs *)

StrHttp == <<"h", "t", "t", "p">>

StrHttps == <<"h", "t", "t", "p", "s">>

StrMetrics == <<"m", "e", "t">>

Ip1 == <<"h", "1">>

Ip2 == <<"h", "2">>

Ip3 == <<"h", "3">>

PathEmpty == <<>>

PathAbs == <<"/", "v">>

PathRel == <<"v">>

\* K8sDiscoveryConfig, lines 39-51.
MkK8sConfig(label_selector, port_name, protocol, worker_path) ==
    [label_selector |-> label_selector, port_name |-> port_name,
     protocol |-> protocol, worker_path |-> worker_path]

\* The built-in label selector (lib.rs line 118, k8s_discovery.rs line 56).
DefaultSelector == "sgl-role=llm-worker"

\* label_selector only selects what the watch delivers: the configurations of
\* the discovery runs differ in the other fields.
MkConfig(port_name, protocol, worker_path) ==
    MkK8sConfig(DefaultSelector, port_name, protocol, worker_path)

\* Option::unwrap_or.
unwrap_or(o, d) == IF IsSome(o) THEN Unwrap(o) ELSE d

EnvNames ==
    {"SGL_K8S_LABEL_SELECTOR", "SGL_K8S_PORT_NAME", "SGL_K8S_PROTOCOL",
     "SGL_K8S_WORKER_PATH"}

\* No variable of EnvNames is set.
NoEnv == [v \in EnvNames |-> None]

\* K8sDiscoveryConfig::default(), lines 53-62, in environment e.
DefaultK8sConfig(e) ==
    MkK8sConfig(unwrap_or(e["SGL_K8S_LABEL_SELECTOR"], DefaultSelector),
                e["SGL_K8S_PORT_NAME"],
                unwrap_or(e["SGL_K8S_PROTOCOL"], StrHttp),
                unwrap_or(e["SGL_K8S_WORKER_PATH"], PathEmpty))

\* Arguments of Router.__new__: an omitted keyword argument is None.
MkArgs(worker_urls, enable, label_selector, port_name, protocol, worker_path) ==
    [worker_urls |-> worker_urls, enable_k8s_discovery |-> enable,
     k8s_label_selector |-> label_selector, k8s_port_name |-> port_name,
     k8s_protocol |-> protocol, k8s_worker_path |-> worker_path]

\* lib.rs lines 101-163: new_with_k8s with the defaults of its signature.
NewWithK8s(a) ==
    [worker_urls |-> a.worker_urls,
     enable_k8s_discovery |-> unwrap_or(a.enable_k8s_discovery, FALSE),
     k8s_label_selector |-> unwrap_or(a.k8s_label_selector, DefaultSelector),
     k8s_port_name |-> unwrap_or(a.k8s_port_name, None),
     k8s_protocol |-> unwrap_or(a.k8s_protocol, StrHttp),
     k8s_worker_path |-> unwrap_or(a.k8s_worker_path, PathEmpty)]

\* lib.rs lines 199-217: the ServerConfig that Router::start builds.  The
\* environment is at hand but not read.
StartConfig(router, e) ==
    [worker_urls |-> router.worker_urls,
     enable_k8s_discovery |-> router.enable_k8s_discovery,
     k8s_discovery_config |->
         IF router.enable_k8s_discovery
         THEN Some(MkK8sConfig(router.k8s_label_selector, router.k8s_port_name,
                               router.k8s_protocol, router.k8s_worker_path))
         ELSE None]

\* The arguments that give configuration cfg and the initial workers.
ArgsOf(cfg, workers) ==
    MkArgs(workers, Some(TRUE), Some(cfg.label_selector), Some(cfg.port_name),
           Some(cfg.protocol), Some(cfg.worker_path))

\* startup before its first step.
ServerCreated ==
    [pc |-> "created", config |-> None, supervisor |-> FALSE,
     reconciler |-> FALSE, bound |-> FALSE, result |-> "none"]

\* startup has started discovery and serves requests.
Serving(a, e) ==
    [pc |-> "serving", config |-> Some(StartConfig(NewWithK8s(a), e)),
     supervisor |-> TRUE, reconciler |-> TRUE, bound |-> TRUE,
     result |-> "none"]

Configs ==
    { MkConfig(pn, pr, wp) :
        pn \in {None, Some(StrHttp), Some(StrMetrics)},
        pr \in {StrHttp, StrHttps},
        wp \in {PathEmpty, PathAbs, PathRel} }

MkPort(name, port) == [name |-> name, port |-> port]

MkAddress(ip) == [ip |-> ip]

MkSubset(addresses, ports) == [addresses |-> addresses, ports |-> ports]

MkEndpoints(name, subsets) == [name |-> name, subsets |-> subsets]

PortHttp == MkPort(Some(StrHttp), Some(80))

PortMetrics == MkPort(Some(StrMetrics), Some(8000))

AddressLists ==
    { None,
      Some(<<MkAddress(Some(Ip1))>>),
      Some(<<MkAddress(Some(Ip1)), MkAddress(Some(Ip2))>>),
      Some(<<MkAddress(None), MkAddress(Some(Ip2))>>) }

PortLists ==
    { None,
      Some(<<PortHttp>>),
      Some(<<PortHttp, PortMetrics>>),
      Some(<<MkPort(None, Some(81)), PortHttp>>),
      Some(<<MkPort(Some(StrHttp), None), PortMetrics>>) }

Subsets == { MkSubset(a, p) : a \in AddressLists, p \in PortLists }

Groups == {"g1", "g2"}

\* Longest subsets list of an Endpoints object in the rendering runs.
MaxSubsets == 2

SubsetLists == UNION { [1..n -> Subsets] : n \in 0..MaxSubsets }

RenderEndpoints ==
    { MkEndpoints(g, s) : g \in {"g1"}, s \in {None} \cup { Some(l) : l \in SubsetLists } }

NoEndpoints == MkEndpoints("", None)

-----------------------------------------------------------------------------
(* process_endpoints_change, lines 126-169: rendering the URL set *)

\* Mutant: worker_path is appended as configured.
WorkerPathRaw(cfg) == cfg.worker_path

\* The path argument of format!, lines 155-159.
WorkerPath(cfg) ==
    IF is_empty(cfg.worker_path) \/ starts_with(cfg.worker_path, "/")
    THEN cfg.worker_path
    ELSE <<"/">> \o cfg.worker_path

\* format!("{}://{}:{}{}", protocol, ip, port_num, path), lines 150-160.
WorkerUrl(cfg, ip, port_num) ==
    cfg.protocol \o <<":", "/", "/">> \o ip \o <<":">> \o IntToString(port_num)
        \o WorkerPath(cfg)

\* Mutant: the `else { continue }` of lines 143-145 is missing.
PortSelectedUnnamed(cfg, ports, i) ==
    IF IsSome(cfg.port_name) /\ IsSome(ports[i].name)
    THEN ports[i].name = cfg.port_name
    ELSE TRUE

\* Lines 138-146: FALSE where the loop body hits `continue`.
PortSelected(cfg, ports, i) ==
    IF IsSome(cfg.port_name)
    THEN IF IsSome(ports[i].name)
         THEN ports[i].name = cfg.port_name
         ELSE FALSE
    ELSE TRUE

\* Lines 131-166: the URLs one subset inserts into new_urls.
SubsetUrls(cfg, subset) ==
    IF IsSome(subset.addresses)
    THEN UNION { IF IsSome(Unwrap(subset.addresses)[a].ip) /\ IsSome(subset.ports)
                 THEN { WorkerUrl(cfg, Unwrap(Unwrap(subset.addresses)[a].ip),
                                  Unwrap(Unwrap(subset.ports)[p].port)) :
                          p \in { q \in DOMAIN Unwrap(subset.ports) :
                                    /\ PortSelected(cfg, Unwrap(subset.ports), q)
                                    /\ IsSome(Unwrap(subset.ports)[q].port) } }
                 ELSE {} :
                 a \in DOMAIN Unwrap(subset.addresses) }
    ELSE {}

\* Lines 126-169: new_urls after the loops.
RenderUrls(cfg, ep) ==
    IF IsSome(ep.subsets)
    THEN UNION { SubsetUrls(cfg, Unwrap(ep.subsets)[s]) : s \in DOMAIN Unwrap(ep.subsets) }
    ELSE {}

-----------------------------------------------------------------------------
(* DiscoveryCommand, the channel and the registry *)

AddWorker(url) == [op |-> "AddWorker", url |-> url]

RemoveWorker(url) == [op |-> "RemoveWorker", url |-> url]

\* mpsc::channel(100), line 207.
ChannelCapacity == 100

\* The membership a command asks for: AddWorker(url) asks for url to be a
\* worker, RemoveWorker(url) asks for it not to be.  This is what the driver
\* requested, not what the reconciler did with the command: an add that fails
\* (RecvAddWorker on an invalid url, RecAddTimeout) leaves the registry as it
\* was.
Requested(set, cmd) ==
    IF cmd.op = "AddWorker" THEN set \cup {cmd.url} ELSE set \ {cmd.url}

Range(seq) == { seq[i] : i \in DOMAIN seq }

\* Registry.remove: the Ready sequence without url, order kept.
RegistryRemove(reg, url) == SelectSeq(reg, LAMBDA w : w # url)

\* Mutant: the url is appended without looking at the Ready sequence.
RegistryCommitBlind(reg, url) == Append(reg, url)

\* Registry.add after a successful probe: duplicates are rejected, else append.
RegistryCommit(reg, url) == IF url \in Range(reg) THEN reg ELSE Append(reg, url)

HasPrefix(s, p) == Len(s) >= Len(p) /\ SubSeq(s, 1, Len(p)) = p

\* Registry.add fails at once on a syntactically invalid url.
ValidUrl(url) ==
    \/ HasPrefix(url, StrHttp \o <<":", "/", "/">>)
    \/ HasPrefix(url, StrHttps \o <<":", "/", "/">>)

-----------------------------------------------------------------------------
(* Bounds and inputs of the system runs *)

\* Watch events the source delivers in a run of the driver alone.
MaxEvents == 3

\* Watch events in a run of the driver with the reconciler.
MaxDiscEvents == 2

\* Watch events in a run of the whole system.
MaxSysEvents == 2

\* Concurrent admin connections.
MaxAdmin == 1

NamedPortConfig == MkConfig(Some(StrHttp), StrHttp, PathEmpty)

SystemConfigs == {NamedPortConfig}

ReconConfigs == {NamedPortConfig, MkConfig(Some(StrHttp), <<"f", "t", "p">>, PathEmpty)}

Url1 == WorkerUrl(NamedPortConfig, Ip1, 80)

Url2 == WorkerUrl(NamedPortConfig, Ip2, 80)

Url3 == WorkerUrl(NamedPortConfig, Ip3, 80)

UrlBad == <<"b", "a", "d">>

InitialWorkerLists == {<<>>, <<Url2, Url1>>}

WatchAddressLists ==
    { Some(<<>>),
      Some(<<MkAddress(Some(Ip1))>>),
      Some(<<MkAddress(Some(Ip2))>>),
      Some(<<MkAddress(Some(Ip1)), MkAddress(Some(Ip2))>>),
      Some(<<MkAddress(Some(Ip2)), MkAddress(Some(Ip3))>>) }

\* Address lists of the runs with the reconciler: two workers.
DiscAddressLists ==
    { Some(<<>>),
      Some(<<MkAddress(Some(Ip1))>>),
      Some(<<MkAddress(Some(Ip2))>>),
      Some(<<MkAddress(Some(Ip1)), MkAddress(Some(Ip2))>>) }

WatchEndpoints(groups, lists) ==
    { MkEndpoints(g, Some(<<MkSubset(a, Some(<<PortHttp, PortMetrics>>))>>)) :
        g \in groups, a \in lists }

NoEvent == [type |-> "none", name |-> "", new |-> {}, prev |-> {}]

EmptyMap == [g \in {} |-> {}]

AdminIdle == [pc |-> "idle", url |-> <<>>, calls |-> <<>>]

NoResponse == [handler |-> "none", status |-> 0, result |-> "none"]

\* No request answered yet.
NoRequest == [query |-> <<>>, calls |-> <<>>]

\* Nothing forwarded to any worker yet.
NoneReceived == [k \in {} |-> 0]

\* sink_handler is not running; method, path, drained and failed tell of its
\* last run.
SinkIdle ==
    [pc |-> "idle", method |-> "", path |-> "", payload |-> <<>>,
     drained |-> 0, failed |-> FALSE]

-----------------------------------------------------------------------------
(* Initial states *)

InitSystem(cfgs, workers) ==
    /\ config \in cfgs
    /\ endpoints = NoEndpoints
    /\ new_urls = {}
    /\ known_endpoints = EmptyMap
    /\ drv_pc = "start"
    /\ urls_to_add = {}
    /\ urls_to_remove = {}
    /\ state_urls = {}
    /\ queue = <<>>
    /\ rec_pc = "recv"
    /\ rec_url = <<>>
    /\ rec_log = "none"
    /\ registry \in workers
    /\ admin = [i \in 1..MaxAdmin |-> AdminIdle]
    /\ response = NoResponse
    /\ handled = NoRequest
    /\ received = NoneReceived
    /\ inflight = NoneReceived
    /\ cursor = 0
    /\ sink = SinkIdle
    /\ last_event = NoEvent
    /\ batch = <<>>
    /\ requested_run = {}
    /\ requested_all = {}
    /\ last_exit = "none"
    /\ slept = FALSE
    /\ n_events = 0
    /\ recv_parity = 0
    /\ env = NoEnv
    /\ args = ArgsOf(config, registry)
    /\ server = Serving(args, env)

Init == InitSystem(SystemConfigs, InitialWorkerLists)

driverVars == <<new_urls, known_endpoints, drv_pc, urls_to_add, urls_to_remove,
                state_urls, last_event, batch, requested_run, requested_all,
                last_exit, slept, n_events>>

reconcilerVars == <<rec_pc, rec_url, rec_log, recv_parity>>

\* State of the proxied, routed and unmatched requests.
httpVars == <<received, inflight, cursor, sink>>

\* State of startup and its inputs.
startVars == <<env, args, server>>

adminVars == <<admin, response, handled, httpVars, startVars>>

-----------------------------------------------------------------------------
(* run_k8s_discovery_task, lines 211-218: the supervising loop *)

\* Line 70 or line 84 fails: start_k8s_discovery returns Err before watching.
DriverStartFails ==
    /\ drv_pc = "start"
    /\ drv_pc' = "backoff"
    /\ last_exit' = "err"
    /\ slept' = FALSE
    /\ UNCHANGED <<config, endpoints, new_urls, known_endpoints, urls_to_add,
                   urls_to_remove, state_urls, queue, reconcilerVars, registry,
                   adminVars, last_event, batch, requested_run, requested_all,
                   n_events>>

\* Lines 70-84 succeed: a fresh known_endpoints, and the watch stream is open.
DriverStart ==
    /\ drv_pc = "start"
    /\ drv_pc' = "watch"
    /\ known_endpoints' = EmptyMap
    /\ requested_run' = {}
    /\ last_event' = NoEvent
    /\ batch' = <<>>
    /\ new_urls' = {}
    /\ UNCHANGED <<config, endpoints, urls_to_add, urls_to_remove, state_urls,
                   queue, reconcilerVars, registry, adminVars, requested_all,
                   last_exit, slept, n_events>>

\* Line 87: try_next yields Err; the driver returns Err(WatchError), and the
\* supervising task logs it and starts sleeping (lines 213-215).
StreamError ==
    /\ drv_pc = "watch"
    /\ drv_pc' = "backoff"
    /\ last_exit' = "err"
    /\ slept' = FALSE
    /\ UNCHANGED <<config, endpoints, new_urls, known_endpoints, urls_to_add,
                   urls_to_remove, state_urls, queue, reconcilerVars, registry,
                   adminVars, last_event, batch, requested_run, requested_all,
                   n_events>>

\* Mutant: the supervising task ends when the driver returns Ok(()).
StreamEndReturns ==
    /\ drv_pc = "watch"
    /\ drv_pc' = "done"
    /\ last_exit' = "ok"
    /\ slept' = FALSE
    /\ UNCHANGED <<config, endpoints, new_urls, known_endpoints, urls_to_add,
                   urls_to_remove, state_urls, queue, reconcilerVars, registry,
                   adminVars, last_event, batch, requested_run, requested_all,
                   n_events>>

\* Line 87: try_next yields None; the driver returns Ok(()) (line 115), the
\* `if let Err` of line 213 does not match and the loop calls the driver again.
StreamEnd ==
    /\ drv_pc = "watch"
    /\ drv_pc' = "start"
    /\ last_exit' = "ok"
    /\ slept' = FALSE
    /\ UNCHANGED <<config, endpoints, new_urls, known_endpoints, urls_to_add,
                   urls_to_remove, state_urls, queue, reconcilerVars, registry,
                   adminVars, last_event, batch, requested_run, requested_all,
                   n_events>>

\* Line 215: the 10 s sleep is over.
BackoffElapsed ==
    /\ drv_pc = "backoff"
    /\ drv_pc' = "start"
    /\ slept' = TRUE
    /\ UNCHANGED <<config, endpoints, new_urls, known_endpoints, urls_to_add,
                   urls_to_remove, state_urls, queue, reconcilerVars, registry,
                   adminVars, last_event, batch, requested_run, requested_all,
                   last_exit, n_events>>

-----------------------------------------------------------------------------
(* start_k8s_discovery, lines 87-113, and process_endpoints_change *)

\* Lines 172-174: the urls stored for name, an empty set if name is unknown.
KnownUrls(known, name) == IF name \in DOMAIN known THEN known[name] ELSE {}

\* Mutant: every rendered url is announced again.
UrlsToAddAll(new, old) == new

\* Line 177: new_urls.difference(&state.urls).
UrlsToAdd(new, old) == new \ old

\* Mutant: departed urls are forgotten without a command.
UrlsToRemoveNone(new, old) == {}

\* Line 180: state.urls.difference(&new_urls).
UrlsToRemove(new, old) == old \ new

\* Line 183: state.urls = new_urls, on the entry of line 172.
StoreUrls(known, name, new) ==
    [g \in DOMAIN known \cup {name} |-> IF g = name THEN new ELSE known[g]]

\* Mutant: the Deleted branch finds no state to iterate.
DeletedUrlsNone(known, name) == {}

\* Lines 97-98: state.urls of the entry taken out of known_endpoints.
DeletedUrls(known, name) == IF name \in DOMAIN known THEN known[name] ELSE {}

\* Line 97: known_endpoints.remove(&name).
ForgetGroup(known, name) == [g \in DOMAIN known \ {name} |-> known[g]]

\* The driver is back at line 87 once no send of the event is outstanding.
AfterSend(adds, removes, dels) ==
    IF adds = {} /\ removes = {} /\ dels = {} THEN "watch"
    ELSE IF dels # {} THEN "deleting" ELSE "sending"

\* The source delivers an event: at most Unwrap(budget) of them in a run with
\* a budget, any number in a run without one (budget = None).
Deliver(budget) ==
    /\ IsSome(budget) => n_events < Unwrap(budget)
    /\ n_events' = IF IsSome(budget) THEN n_events + 1 ELSE n_events

\* Lines 89-92 with process_endpoints_change up to line 183: an Added or
\* Modified event.  The two Vecs are collected from HashSet iterators, so their
\* order is arbitrary: they are kept as sets and sent in any order.
WatchApplied(eps, budget) ==
    /\ drv_pc = "watch"
    /\ Deliver(budget)
    /\ \E ep \in eps :
         LET name == ep.name
             new  == RenderUrls(config, ep)
             old  == KnownUrls(known_endpoints, name)
         IN /\ new_urls' = new
            /\ urls_to_add' = UrlsToAdd(new, old)
            /\ urls_to_remove' = UrlsToRemove(new, old)
            /\ known_endpoints' = StoreUrls(known_endpoints, name, new)
            /\ last_event' = [type |-> "Applied", name |-> name, new |-> new,
                              prev |-> old]
            /\ drv_pc' = AfterSend(urls_to_add', urls_to_remove', {})
    /\ batch' = <<>>
    /\ UNCHANGED <<config, endpoints, state_urls, queue, reconcilerVars,
                   registry, adminVars, requested_run, requested_all, last_exit,
                   slept>>

\* Lines 93-105 up to the loop: a Deleted event.
WatchDeleted(groups, budget) ==
    /\ drv_pc = "watch"
    /\ Deliver(budget)
    /\ \E name \in groups :
         /\ state_urls' = DeletedUrls(known_endpoints, name)
         /\ known_endpoints' = ForgetGroup(known_endpoints, name)
         /\ last_event' = [type |-> "Deleted", name |-> name, new |-> {},
                           prev |-> KnownUrls(known_endpoints, name)]
         /\ drv_pc' = AfterSend({}, {}, state_urls')
    /\ batch' = <<>>
    /\ UNCHANGED <<config, endpoints, new_urls, urls_to_add, urls_to_remove,
                   queue, reconcilerVars, registry, adminVars, requested_run,
                   requested_all, last_exit, slept>>

\* Lines 106-108: a Bookmark event.
WatchBookmark(budget) ==
    /\ drv_pc = "watch"
    /\ Deliver(budget)
    /\ last_event' = [NoEvent EXCEPT !.type = "Bookmark"]
    /\ batch' = <<>>
    /\ UNCHANGED <<config, endpoints, new_urls, known_endpoints, drv_pc,
                   urls_to_add, urls_to_remove, state_urls, queue,
                   reconcilerVars, registry, adminVars, requested_run,
                   requested_all, last_exit, slept>>

\* Mutant: an Error event is returned like an error of the stream.
WatchErrorEventReturns(budget) ==
    /\ drv_pc = "watch"
    /\ Deliver(budget)
    /\ last_event' = [NoEvent EXCEPT !.type = "Error"]
    /\ batch' = <<>>
    /\ drv_pc' = "backoff"
    /\ last_exit' = "err"
    /\ slept' = FALSE
    /\ UNCHANGED <<config, endpoints, new_urls, known_endpoints,
                   urls_to_add, urls_to_remove, state_urls, queue,
                   reconcilerVars, registry, adminVars, requested_run,
                   requested_all>>

\* Lines 109-111: an Error event is logged.
WatchErrorEvent(budget) ==
    /\ drv_pc = "watch"
    /\ Deliver(budget)
    /\ last_event' = [NoEvent EXCEPT !.type = "Error"]
    /\ batch' = <<>>
    /\ UNCHANGED <<config, endpoints, new_urls, known_endpoints, drv_pc,
                   urls_to_add, urls_to_remove, state_urls, queue,
                   reconcilerVars, registry, adminVars, requested_run,
                   requested_all, last_exit, slept>>

\* Mutant: send completes whatever the channel holds.
ChannelUnbounded(q) == TRUE

\* sender.send(cmd).await completes only while the channel has room.  The
\* receiver lives in the reconciler task, whose loop ends only when every
\* sender is gone, and the supervising task never drops its sender: send
\* never returns Err.
ChannelHasRoom(q) == Len(q) < ChannelCapacity

Emit(cmd) ==
    /\ ChannelHasRoom(queue)
    /\ queue' = Append(queue, cmd)
    /\ batch' = Append(batch, cmd)
    /\ requested_run' = Requested(requested_run, cmd)
    /\ requested_all' = Requested(requested_all, cmd)

\* Lines 186-191: one iteration of the AddWorker loop.
SendAddWorker ==
    /\ drv_pc = "sending"
    /\ \E url \in urls_to_add :
         /\ Emit(AddWorker(url))
         /\ urls_to_add' = urls_to_add \ {url}
    /\ drv_pc' = AfterSend(urls_to_add', urls_to_remove, {})
    /\ UNCHANGED <<config, endpoints, new_urls, known_endpoints, urls_to_remove,
                   state_urls, reconcilerVars, registry, adminVars, last_event,
                   last_exit, slept, n_events>>

\* Mutant: the two loops are merged, a removal may be sent before an add.
SendRemoveWorkerInterleaved ==
    /\ drv_pc = "sending"
    /\ \E url \in urls_to_remove :
         /\ Emit(RemoveWorker(url))
         /\ urls_to_remove' = urls_to_remove \ {url}
    /\ drv_pc' = AfterSend(urls_to_add, urls_to_remove', {})
    /\ UNCHANGED <<config, endpoints, new_urls, known_endpoints, urls_to_add,
                   state_urls, reconcilerVars, registry, adminVars, last_event,
                   last_exit, slept, n_events>>

\* Lines 194-199: one iteration of the RemoveWorker loop, after the adds.
SendRemoveWorker ==
    /\ drv_pc = "sending"
    /\ urls_to_add = {}
    /\ \E url \in urls_to_remove :
         /\ Emit(RemoveWorker(url))
         /\ urls_to_remove' = urls_to_remove \ {url}
    /\ drv_pc' = AfterSend({}, urls_to_remove', {})
    /\ UNCHANGED <<config, endpoints, new_urls, known_endpoints, urls_to_add,
                   state_urls, reconcilerVars, registry, adminVars, last_event,
                   last_exit, slept, n_events>>

\* Lines 98-103: one iteration of the loop of the Deleted branch.
SendDeletedRemove ==
    /\ drv_pc = "deleting"
    /\ \E url \in state_urls :
         /\ Emit(RemoveWorker(url))
         /\ state_urls' = state_urls \ {url}
    /\ drv_pc' = AfterSend({}, {}, state_urls')
    /\ UNCHANGED <<config, endpoints, new_urls, known_endpoints, urls_to_add,
                   urls_to_remove, reconcilerVars, registry, adminVars,
                   last_event, last_exit, slept, n_events>>

-----------------------------------------------------------------------------
(* Registry.add and Registry.remove (Router::add_worker, Router::remove_worker) *)

\* add(url) returns at once on an invalid url, else starts probing.
AddBegins(url) == ValidUrl(url)

\* Result of add(url) when a probe succeeds: registry membership is checked
\* and changed in one serialised step.
AddResult(reg, url) == IF url \in Range(reg) THEN "exists" ELSE "added"

-----------------------------------------------------------------------------
(* server.rs, lines 232-249: the reconciler task *)

\* Lines 234-237: recv yields AddWorker(url) and add_worker(&url) is called.
RecvAddWorker ==
    /\ rec_pc = "recv"
    /\ queue # <<>>
    /\ Head(queue).op = "AddWorker"
    /\ queue' = Tail(queue)
    /\ recv_parity' = 1 - recv_parity
    /\ IF AddBegins(Head(queue).url)
       THEN /\ rec_pc' = "adding"
            /\ rec_url' = Head(queue).url
            /\ rec_log' = rec_log
       ELSE /\ rec_pc' = "recv"
            /\ rec_url' = rec_url
            /\ rec_log' = "invalid"
    /\ UNCHANGED <<config, endpoints, driverVars, registry, adminVars>>

\* Lines 237-238 or 239: a probe succeeded and add_worker returns.
RecAddProbeOk ==
    /\ rec_pc = "adding"
    /\ registry' = RegistryCommit(registry, rec_url)
    /\ rec_log' = AddResult(registry, rec_url)
    /\ rec_pc' = "recv"
    /\ rec_url' = <<>>
    /\ UNCHANGED <<config, endpoints, driverVars, queue, recv_parity, adminVars>>

\* Mutant: the Err of add_worker ends the reconciler task.
RecAddTimeoutStops ==
    /\ rec_pc = "adding"
    /\ rec_log' = "timeout"
    /\ rec_pc' = "stopped"
    /\ rec_url' = <<>>
    /\ UNCHANGED <<config, endpoints, driverVars, queue, recv_parity, registry,
                   adminVars>>

\* Line 239: the probe window is exhausted and add_worker returns Err.
RecAddTimeout ==
    /\ rec_pc = "adding"
    /\ rec_log' = "timeout"
    /\ rec_pc' = "recv"
    /\ rec_url' = <<>>
    /\ UNCHANGED <<config, endpoints, driverVars, queue, recv_parity, registry,
                   adminVars>>

\* Mutant: the command is taken from the channel and only logged.
RecvRemoveWorkerLogged ==
    /\ rec_pc = "recv"
    /\ queue # <<>>
    /\ Head(queue).op = "RemoveWorker"
    /\ queue' = Tail(queue)
    /\ recv_parity' = 1 - recv_parity
    /\ rec_log' = "removed"
    /\ UNCHANGED <<config, endpoints, driverVars, rec_pc, rec_url, registry,
                   adminVars>>

\* Mutant: commands are handled as they arrive, an add may still be running.
RecvRemoveWorkerConcurrent ==
    /\ rec_pc \in {"recv", "adding"}
    /\ queue # <<>>
    /\ Head(queue).op = "RemoveWorker"
    /\ queue' = Tail(queue)
    /\ recv_parity' = 1 - recv_parity
    /\ registry' = RegistryRemove(registry, Head(queue).url)
    /\ rec_log' = "removed"
    /\ UNCHANGED <<config, endpoints, driverVars, rec_pc, rec_url, adminVars>>

\* Lines 242-245: recv yields RemoveWorker(url).
RecvRemoveWorker ==
    /\ rec_pc = "recv"
    /\ queue # <<>>
    /\ Head(queue).op = "RemoveWorker"
    /\ queue' = Tail(queue)
    /\ recv_parity' = 1 - recv_parity
    /\ registry' = RegistryRemove(registry, Head(queue).url)
    /\ rec_log' = "removed"
    /\ UNCHANGED <<config, endpoints, driverVars, rec_pc, rec_url, adminVars>>

-----------------------------------------------------------------------------
(* server.rs, lines 117-147: the admin handlers *)

Respond(handler, status, result) ==
    [handler |-> handler, status |-> status, result |-> result]

QueryUrls == {None} \cup { Some(u) : u \in {Url1, UrlBad} }

\* data.router.add_worker(&url), data.router.remove_worker(&url) as called
\* by a handler.
RegistryCall(op, url) == [op |-> op, url |-> url]

\* A request with its url parameter and the registry calls made for it.
Request(query, calls) == [query |-> query, calls |-> calls]

\* Lines 122-130: POST /add_worker up to the call of add_worker.
AdminAddWorker(i) ==
    /\ admin[i].pc = "idle"
    /\ \E q \in QueryUrls :
         IF ~IsSome(q)
         THEN /\ response' = Respond("add_worker", 400, "missing")
              /\ handled' = Request(q, <<>>)
              /\ admin' = admin
         ELSE IF ~AddBegins(Unwrap(q))
         THEN /\ response' = Respond("add_worker", 400, "invalid")
              /\ handled' = Request(q, <<RegistryCall("add", Unwrap(q))>>)
              /\ admin' = admin
         ELSE /\ admin' = [admin EXCEPT ![i] =
                     [pc |-> "probing", url |-> Unwrap(q),
                      calls |-> <<RegistryCall("add", Unwrap(q))>>]]
              /\ UNCHANGED <<response, handled>>
    /\ UNCHANGED <<httpVars, startVars, config, endpoints, driverVars, queue, reconcilerVars, registry>>

\* Mutant: the handler answers 200 whatever add_worker returned.
AdminAddProbeOkAlways(i) ==
    /\ admin[i].pc = "probing"
    /\ registry' = RegistryCommit(registry, admin[i].url)
    /\ response' = Respond("add_worker", 200, AddResult(registry, admin[i].url))
    /\ handled' = Request(Some(admin[i].url), admin[i].calls)
    /\ admin' = [admin EXCEPT ![i] = AdminIdle]
    /\ UNCHANGED <<httpVars, startVars, config, endpoints, driverVars, queue, reconcilerVars>>

\* Lines 130-132: a probe succeeded and add_worker returns.
AdminAddProbeOk(i) ==
    /\ admin[i].pc = "probing"
    /\ registry' = RegistryCommit(registry, admin[i].url)
    /\ response' = IF AddResult(registry, admin[i].url) = "added"
                   THEN Respond("add_worker", 200, "added")
                   ELSE Respond("add_worker", 400, "exists")
    /\ handled' = Request(Some(admin[i].url), admin[i].calls)
    /\ admin' = [admin EXCEPT ![i] = AdminIdle]
    /\ UNCHANGED <<httpVars, startVars, config, endpoints, driverVars, queue, reconcilerVars>>

\* Line 132: the probe window is exhausted.
AdminAddTimeout(i) ==
    /\ admin[i].pc = "probing"
    /\ response' = Respond("add_worker", 400, "timeout")
    /\ handled' = Request(Some(admin[i].url), admin[i].calls)
    /\ admin' = [admin EXCEPT ![i] = AdminIdle]
    /\ UNCHANGED <<httpVars, startVars, config, endpoints, driverVars, queue, reconcilerVars, registry>>

\* Mutant: a url that is not in the registry is answered 400.
AdminRemoveWorkerChecked(i) ==
    /\ admin[i].pc = "idle"
    /\ \E q \in QueryUrls :
         IF ~IsSome(q) \/ Unwrap(q) \notin Range(registry)
         THEN /\ response' = Respond("remove_worker", 400, "missing")
              /\ handled' = Request(q, <<>>)
              /\ registry' = registry
         ELSE /\ registry' = RegistryRemove(registry, Unwrap(q))
              /\ response' = Respond("remove_worker", 200, "removed")
              /\ handled' = Request(q, <<RegistryCall("remove", Unwrap(q))>>)
    /\ UNCHANGED <<httpVars, startVars, config, endpoints, driverVars, queue, reconcilerVars, admin>>

\* Lines 141-146: POST /remove_worker.
AdminRemoveWorker(i) ==
    /\ admin[i].pc = "idle"
    /\ \E q \in QueryUrls :
         IF ~IsSome(q)
         THEN /\ response' = Respond("remove_worker", 400, "missing")
              /\ handled' = Request(q, <<>>)
              /\ registry' = registry
         ELSE /\ registry' = RegistryRemove(registry, Unwrap(q))
              /\ response' = Respond("remove_worker", 200, "removed")
              /\ handled' = Request(q, <<RegistryCall("remove", Unwrap(q))>>)
    /\ UNCHANGED <<httpVars, startVars, config, endpoints, driverVars, queue, reconcilerVars, admin>>

-----------------------------------------------------------------------------
(* server.rs, lines 37-115 and 263-284: proxied, routed and unmatched requests *)

\* GET /health calls of a run.
MaxHealth == 9

\* Generation requests a run forwards (they advance the cursor).
MaxGenerate == 3

\* Longest request body, in chunks, of a run.
MaxChunks == 2

\* Forwarded requests a run has outstanding at once.
MaxInflight == 2

\* GET requests of a run forwarded on paths other than /health.
MaxProxied == 2

\* Lines 53-86: the #[get] services.
GetRoutes ==
    {"/health", "/health_generate", "/get_server_info", "/v1/models",
     "/get_model_info"}

\* Lines 88-147: the #[post] services.
PostRoutes ==
    {"/generate", "/v1/chat/completions", "/v1/completions", "/add_worker",
     "/remove_worker"}

\* Lines 272-283: the service a request is dispatched to; default_service
\* takes what no service matches.
Route(method, path) ==
    IF method = "GET" /\ path \in GetRoutes THEN path
    ELSE IF method = "POST" /\ path \in PostRoutes THEN path
    ELSE "sink"

Methods == {"GET", "POST", "PUT"}

Paths == {"/health", "/generate", "/add_worker", "/nope"}

\* Status codes a worker answers with.
UpstreamStatuses == {200, 500}

\* Request bodies: each chunk of the payload stream is Ok or Err.
Payloads == UNION { [1..n -> {"ok", "err"}] : n \in 0..MaxChunks }

\* Requests forwarded to worker w on path.
Count(path, w) ==
    IF <<path, w>> \in DOMAIN received THEN received[<<path, w>>] ELSE 0

RECURSIVE SumCounts(_, _)
SumCounts(f, keys) ==
    IF keys = {} THEN 0
    ELSE LET k == CHOOSE x \in keys : TRUE
         IN f[k] + SumCounts(f, keys \ {k})

\* Requests forwarded on path so far.
Total(path) == SumCounts(received, { k \in DOMAIN received : k[1] = path })

\* Requests forwarded so far by the #[get] services other than /health.
Proxied ==
    SumCounts(received, { k \in DOMAIN received : k[1] \in GetRoutes \ {"/health"} })

\* Forwarded requests whose outbound call has not returned.
Pending == SumCounts(inflight, DOMAIN inflight)

\* One more request counted under key k of f.
Incr(f, k) ==
    [x \in DOMAIN f \cup {k} |->
        IF x = k THEN (IF k \in DOMAIN f THEN f[k] ELSE 0) + 1 ELSE f[x]]

\* One request less under key k of f.
Decr(f, k) ==
    [x \in { y \in DOMAIN f : y # k \/ f[y] > 1 } |->
        IF x = k THEN f[k] - 1 ELSE f[x]]

\* One more request forwarded to worker w on path.
Forward(path, w) == Incr(received, <<path, w>>)

\* route_to_first: the first worker in registry order.
SelectFirst(reg) == reg[1]

\* RoundRobin select: the worker at cursor mod len; the cursor is
\* post-incremented.
SelectRoundRobin(reg, cur) == reg[(cur % Len(reg)) + 1]

\* Line 271: PayloadConfig::limit(config.max_payload_size), counted in chunks.
max_payload_size == 1

\* Lines 89, 97 and 109: the Bytes extractor reads the body before the
\* handler is entered: it fails on the first Err chunk and on the first chunk
\* that takes the body over the limit of line 271.
RECURSIVE Extract(_, _)
Extract(body, read) ==
    IF body = <<>> THEN "ok"
    ELSE IF Head(body) = "err" THEN "payload_error"
    ELSE IF read + 1 > max_payload_size THEN "too_large"
    ELSE Extract(Tail(body), read + 1)

\* route_to_first up to its outbound call: with no worker the request is
\* answered at once, else it is sent to the first worker and the handler is
\* suspended until the worker answers.
RouteToFirst(handler, path) ==
    /\ Route("GET", path) = path
    /\ IF registry = <<>>
       THEN /\ response' = Respond(handler, 503, "unavailable")
            /\ UNCHANGED <<received, inflight>>
       ELSE /\ Pending < MaxInflight
            /\ received' = Forward(path, SelectFirst(registry))
            /\ inflight' = Incr(inflight, <<handler, SelectFirst(registry)>>)
            /\ response' = response
    /\ UNCHANGED <<startVars, config, endpoints, driverVars, queue, reconcilerVars,
                   registry, admin, handled, cursor, sink>>

\* route_generate_request up to its outbound call, under the default policy
\* (RoundRobin, lib.rs line 105).  A body the extractor refuses is answered
\* by the framework and the handler is not entered.
RouteGenerateRequest(handler, path) ==
    /\ Route("POST", path) = path
    /\ \E body \in Payloads :
         IF Extract(body, 0) = "payload_error"
         THEN /\ response' = Respond(handler, 400, "payload_error")
              /\ UNCHANGED <<received, inflight, cursor>>
         ELSE IF Extract(body, 0) = "too_large"
         THEN /\ response' = Respond(handler, 413, "too_large")
              /\ UNCHANGED <<received, inflight, cursor>>
         ELSE IF registry = <<>>
         THEN /\ response' = Respond(handler, 503, "unavailable")
              /\ UNCHANGED <<received, inflight, cursor>>
         ELSE /\ Pending < MaxInflight
              /\ received' = Forward(path, SelectRoundRobin(registry, cursor))
              /\ inflight' = Incr(inflight, <<handler, SelectRoundRobin(registry, cursor)>>)
              /\ cursor' = cursor + 1
              /\ response' = response
    /\ UNCHANGED <<startVars, config, endpoints, driverVars, queue, reconcilerVars,
                   registry, admin, handled, sink>>

\* The .await of lines 57, 64, 71, 78, 85, 92, 103 and 114: the outbound call
\* returns and the handler passes the worker's answer on.
ProxyAnswer ==
    /\ \E k \in DOMAIN inflight, st \in UpstreamStatuses :
         /\ inflight' = Decr(inflight, k)
         /\ response' = Respond(k[1], st, "proxied")
    /\ UNCHANGED <<startVars, config, endpoints, driverVars, queue, reconcilerVars,
                   registry, admin, handled, received, cursor, sink>>

\* Mutant: /health is routed by the policy.
HealthByPolicy ==
    /\ Total("/health") < MaxHealth
    /\ IF registry = <<>>
       THEN /\ response' = Respond("health", 503, "unavailable")
            /\ UNCHANGED <<received, inflight, cursor>>
       ELSE /\ Pending < MaxInflight
            /\ received' = Forward("/health", SelectRoundRobin(registry, cursor))
            /\ inflight' = Incr(inflight, <<"health", SelectRoundRobin(registry, cursor)>>)
            /\ cursor' = cursor + 1
            /\ response' = response
    /\ UNCHANGED <<startVars, config, endpoints, driverVars, queue, reconcilerVars,
                   registry, admin, handled, sink>>

\* Lines 53-58: GET /health.
Health ==
    /\ Total("/health") < MaxHealth
    /\ RouteToFirst("health", "/health")

\* Lines 60-65: GET /health_generate.
HealthGenerate ==
    /\ Proxied < MaxProxied
    /\ RouteToFirst("health_generate", "/health_generate")

\* Lines 67-72: GET /get_server_info.
GetServerInfo ==
    /\ Proxied < MaxProxied
    /\ RouteToFirst("get_server_info", "/get_server_info")

\* Lines 74-79: GET /v1/models.
V1Models ==
    /\ Proxied < MaxProxied
    /\ RouteToFirst("v1_models", "/v1/models")

\* Lines 81-86: GET /get_model_info.
GetModelInfo ==
    /\ Proxied < MaxProxied
    /\ RouteToFirst("get_model_info", "/get_model_info")

\* Lines 88-93: POST /generate.
Generate ==
    /\ cursor < MaxGenerate
    /\ RouteGenerateRequest("generate", "/generate")

\* Lines 95-104: POST /v1/chat/completions.
V1ChatCompletions ==
    /\ cursor < MaxGenerate
    /\ RouteGenerateRequest("v1_chat_completions", "/v1/chat/completions")

\* Lines 106-115: POST /v1/completions.
V1Completions ==
    /\ cursor < MaxGenerate
    /\ RouteGenerateRequest("v1_completions", "/v1/completions")

\* Line 283: a request no service matches reaches sink_handler.
SinkRequest ==
    /\ sink.pc = "idle"
    /\ \E m \in Methods, p \in Paths, body \in Payloads :
         /\ Route(m, p) = "sink"
         /\ sink' = [pc |-> "draining", method |-> m, path |-> p,
                     payload |-> body, drained |-> 0, failed |-> FALSE]
    /\ UNCHANGED <<startVars, config, endpoints, driverVars, queue, reconcilerVars,
                   registry, admin, response, handled, received, inflight,
                   cursor>>

\* Lines 39-44: payload.next() yields an Ok chunk, which is dropped.
SinkChunkOk ==
    /\ sink.pc = "draining"
    /\ sink.payload # <<>>
    /\ Head(sink.payload) = "ok"
    /\ sink' = [sink EXCEPT !.payload = Tail(@), !.drained = @ + 1]
    /\ UNCHANGED <<startVars, config, endpoints, driverVars, queue, reconcilerVars,
                   registry, admin, response, handled, received, inflight,
                   cursor>>

\* Mutant: the error of the payload stream is returned to the framework.
SinkChunkErrReturned ==
    /\ sink.pc = "draining"
    /\ sink.payload # <<>>
    /\ Head(sink.payload) = "err"
    /\ sink' = [sink EXCEPT !.pc = "idle", !.failed = TRUE]
    /\ response' = Respond("sink", 400, "payload_error")
    /\ UNCHANGED <<startVars, config, endpoints, driverVars, queue, reconcilerVars,
                   registry, admin, handled, received, inflight, cursor>>

\* Lines 40-45: payload.next() yields Err: the loop is left and line 45
\* answers 404.
SinkChunkErr ==
    /\ sink.pc = "draining"
    /\ sink.payload # <<>>
    /\ Head(sink.payload) = "err"
    /\ sink' = [sink EXCEPT !.pc = "idle", !.failed = TRUE]
    /\ response' = Respond("sink", 404, "not_found")
    /\ UNCHANGED <<startVars, config, endpoints, driverVars, queue, reconcilerVars,
                   registry, admin, handled, received, inflight, cursor>>

\* Lines 39 and 45: payload.next() yields None and the handler answers 404.
SinkEnd ==
    /\ sink.pc = "draining"
    /\ sink.payload = <<>>
    /\ sink' = [sink EXCEPT !.pc = "idle"]
    /\ response' = Respond("sink", 404, "not_found")
    /\ UNCHANGED <<startVars, config, endpoints, driverVars, queue, reconcilerVars,
                   registry, admin, handled, received, inflight, cursor>>

-----------------------------------------------------------------------------
(* lib.rs, lines 165-225, and server.rs, lines 160-287: Router::start, startup *)

StartArgs ==
    { MkArgs(w, en, ls, pn, pr, wp) :
        w \in {<<>>, <<Url1>>, <<UrlBad>>},
        en \in {None, Some(TRUE), Some(FALSE)},
        ls \in {None, Some("app=x")},
        pn \in {None, Some(Some(StrMetrics))},
        pr \in {None, Some(StrHttps)},
        wp \in {None, Some(PathAbs)} }

EnvValue(v) ==
    CASE v = "SGL_K8S_LABEL_SELECTOR" -> "role=env"
      [] v = "SGL_K8S_PORT_NAME" -> StrHttp
      [] v = "SGL_K8S_PROTOCOL" -> StrHttps
      [] v = "SGL_K8S_WORKER_PATH" -> PathRel

StartEnvs ==
    { [v \in EnvNames |-> IF v \in set THEN Some(EnvValue(v)) ELSE None] :
        set \in SUBSET EnvNames }

\* Router::new(worker_urls, policy_config) succeeds: no url is malformed.
RouterNewOk(worker_urls) == \A i \in DOMAIN worker_urls : ValidUrl(worker_urls[i])

\* The process before Router.start() is called.
InitStart ==
    /\ env \in StartEnvs
    /\ args \in StartArgs
    /\ server = ServerCreated
    /\ config = MkK8sConfig("", None, <<>>, <<>>)
    /\ endpoints = NoEndpoints
    /\ new_urls = {}
    /\ known_endpoints = EmptyMap
    /\ drv_pc = "unspawned"
    /\ urls_to_add = {}
    /\ urls_to_remove = {}
    /\ state_urls = {}
    /\ queue = <<>>
    /\ rec_pc = "unspawned"
    /\ rec_url = <<>>
    /\ rec_log = "none"
    /\ registry = <<>>
    /\ admin = [i \in 1..MaxAdmin |-> AdminIdle]
    /\ response = NoResponse
    /\ handled = NoRequest
    /\ received = NoneReceived
    /\ inflight = NoneReceived
    /\ cursor = 0
    /\ sink = SinkIdle
    /\ last_event = NoEvent
    /\ batch = <<>>
    /\ requested_run = {}
    /\ requested_all = {}
    /\ last_exit = "none"
    /\ slept = FALSE
    /\ n_events = 0
    /\ recv_parity = 0

startFrame ==
    <<env, args, endpoints, new_urls, known_endpoints, urls_to_add,
      urls_to_remove, state_urls, queue, rec_url, rec_log, recv_parity,
      admin, response, handled, httpVars, last_event, batch, requested_run,
      requested_all, last_exit, slept, n_events>>

\* lib.rs lines 198-220: Router::start builds the ServerConfig and calls
\* startup.
RouterStart ==
    /\ server.pc = "created"
    /\ server' = [server EXCEPT !.pc = "app_state",
                                !.config = Some(StartConfig(NewWithK8s(args), env))]
    /\ UNCHANGED <<startFrame, config, drv_pc, rec_pc, registry>>

\* server.rs lines 212-219: AppState::new returns Ok.
AppStateNewOk ==
    /\ server.pc = "app_state"
    /\ RouterNewOk(Unwrap(server.config).worker_urls)
    /\ registry' = Unwrap(server.config).worker_urls
    /\ server' = [server EXCEPT !.pc = "discovery"]
    /\ UNCHANGED <<startFrame, config, drv_pc, rec_pc>>

\* Mutant: the error of AppState::new is logged and startup goes on.
AppStateNewErrLogged ==
    /\ server.pc = "app_state"
    /\ ~RouterNewOk(Unwrap(server.config).worker_urls)
    /\ server' = [server EXCEPT !.pc = "discovery"]
    /\ UNCHANGED <<startFrame, config, drv_pc, rec_pc, registry>>

\* server.rs line 218: AppState::new returns Err and `?` returns it.
AppStateNewErr ==
    /\ server.pc = "app_state"
    /\ ~RouterNewOk(Unwrap(server.config).worker_urls)
    /\ server' = [server EXCEPT !.pc = "failed", !.result = "router_error"]
    /\ UNCHANGED <<startFrame, config, drv_pc, rec_pc, registry>>

\* server.rs lines 223-258 with run_k8s_discovery_task (k8s_discovery.rs
\* lines 205-221): the task creates the channel, spawns the supervising
\* loop and returns Ok(receiver) (line 220); startup then spawns the
\* reconciler on the receiver.  A missing configuration is logged.  Nothing
\* between the two spawns and the bind of line 285 yields to the runtime, so
\* both tasks exist but have not been polled yet.
StartDiscovery ==
    /\ server.pc = "discovery"
    /\ IF /\ Unwrap(server.config).enable_k8s_discovery
          /\ IsSome(Unwrap(server.config).k8s_discovery_config)
       THEN /\ config' = Unwrap(Unwrap(server.config).k8s_discovery_config)
            /\ drv_pc' = "spawned"
            /\ rec_pc' = "spawned"
            /\ server' = [server EXCEPT !.pc = "bind", !.supervisor = TRUE,
                                        !.reconciler = TRUE]
       ELSE /\ server' = [server EXCEPT !.pc = "bind"]
            /\ UNCHANGED <<config, drv_pc, rec_pc>>
    /\ UNCHANGED <<startFrame, registry>>

\* server.rs lines 263-287: bind succeeds and the server runs; startup is
\* suspended at .run().await (line 287) and the runtime polls the spawned
\* tasks: the supervising task reaches its first call of the driver and the
\* reconciler its first recv.
BindOk ==
    /\ server.pc = "bind"
    /\ server' = [server EXCEPT !.pc = "serving", !.bound = TRUE]
    /\ drv_pc' = IF drv_pc = "spawned" THEN "start" ELSE drv_pc
    /\ rec_pc' = IF rec_pc = "spawned" THEN "recv" ELSE rec_pc
    /\ UNCHANGED <<startFrame, config, registry>>

\* server.rs line 285: bind fails and `?` returns the error; block_on
\* (lib.rs lines 219-224) returns and the runtime is dropped with the two
\* tasks, which were never polled.
BindErr ==
    /\ server.pc = "bind"
    /\ server' = [server EXCEPT !.pc = "failed", !.result = "bind_error",
                                !.supervisor = FALSE, !.reconciler = FALSE]
    /\ drv_pc' = IF drv_pc = "spawned" THEN "dropped" ELSE drv_pc
    /\ rec_pc' = IF rec_pc = "spawned" THEN "dropped" ELSE rec_pc
    /\ UNCHANGED <<startFrame, config, registry>>

-----------------------------------------------------------------------------------------------------------------------------------------------------
(* Specifications *)

\* The whole system: driver, supervising task, reconciler and admin surface.
Next ==
    \/ DriverStartFails
    \/ DriverStart
    \/ StreamError
    \/ StreamEnd
    \/ BackoffElapsed
    \/ WatchApplied(WatchEndpoints({"g1"},
                                   {Some(<<>>), Some(<<MkAddress(Some(Ip1))>>)}),
                    Some(MaxSysEvents))
    \/ WatchDeleted({"g1"}, Some(MaxSysEvents))
    \/ WatchBookmark(Some(MaxSysEvents))
    \/ WatchErrorEvent(Some(MaxSysEvents))
    \/ SendAddWorker
    \/ SendRemoveWorker
    \/ SendDeletedRemove
    \/ RecvAddWorker
    \/ RecAddProbeOk
    \/ RecAddTimeout
    \/ RecvRemoveWorker
    \/ \E i \in 1..MaxAdmin : AdminAddWorker(i)
    \/ \E i \in 1..MaxAdmin : AdminAddProbeOk(i)
    \/ \E i \in 1..MaxAdmin : AdminAddTimeout(i)
    \/ \E i \in 1..MaxAdmin : AdminRemoveWorker(i)

Spec == Init /\ [][Next]_vars

\* The driver and its supervising task alone, two groups.
InitDriver == InitSystem(SystemConfigs, {<<>>})

NextDriver ==
    \/ DriverStartFails
    \/ DriverStart
    \/ StreamError
    \/ StreamEnd
    \/ BackoffElapsed
    \/ WatchApplied(WatchEndpoints(Groups, WatchAddressLists), Some(MaxEvents))
    \/ WatchDeleted(Groups, Some(MaxEvents))
    \/ WatchBookmark(Some(MaxEvents))
    \/ WatchErrorEvent(Some(MaxEvents))
    \/ SendAddWorker
    \/ SendRemoveWorker
    \/ SendDeletedRemove

SpecDriver == InitDriver /\ [][NextDriver]_vars

\* The driver and its supervising task watching a single group.
NextSingle ==
    \/ DriverStartFails
    \/ DriverStart
    \/ StreamError
    \/ StreamEnd
    \/ BackoffElapsed
    \/ WatchApplied(WatchEndpoints({"g1"}, WatchAddressLists), Some(MaxEvents))
    \/ WatchDeleted({"g1"}, Some(MaxEvents))
    \/ WatchBookmark(Some(MaxEvents))
    \/ WatchErrorEvent(Some(MaxEvents))
    \/ SendAddWorker
    \/ SendRemoveWorker
    \/ SendDeletedRemove

SpecSingle == InitDriver /\ [][NextSingle]_vars

\* Discovery as the only source of membership changes: driver and reconciler.
NextDisc ==
    \/ DriverStartFails
    \/ DriverStart
    \/ StreamError
    \/ StreamEnd
    \/ BackoffElapsed
    \/ WatchApplied(WatchEndpoints(Groups, DiscAddressLists), Some(MaxDiscEvents))
    \/ WatchDeleted(Groups, Some(MaxDiscEvents))
    \/ WatchBookmark(Some(MaxDiscEvents))
    \/ WatchErrorEvent(Some(MaxDiscEvents))
    \/ SendAddWorker
    \/ SendRemoveWorker
    \/ SendDeletedRemove
    \/ RecvAddWorker
    \/ RecAddProbeOk
    \/ RecAddTimeout
    \/ RecvRemoveWorker

SpecDisc == Init /\ [][NextDisc]_vars

\* The channel under load: one group of one worker that comes and goes, an
\* unbounded source and a reconciler that may lag behind.
ChanEndpoints ==
    { MkEndpoints("g1", Some(<<MkSubset(a, Some(<<PortHttp, PortMetrics>>))>>)) :
        a \in {Some(<<>>), Some(<<MkAddress(Some(Ip1))>>)} }

NextChan ==
    \/ DriverStart
    \/ WatchApplied(ChanEndpoints, None)
    \/ WatchDeleted({"g1"}, None)
    \/ SendAddWorker
    \/ SendRemoveWorker
    \/ SendDeletedRemove
    \/ RecvAddWorker
    \/ RecAddProbeOk
    \/ RecAddTimeout
    \/ RecvRemoveWorker

\* add_worker returns within its timeout, and the runtime schedules the
\* reconciler task whenever it can run.
ReconcilerFairness ==
    /\ WF_vars(RecvAddWorker)
    /\ WF_vars(RecAddProbeOk \/ RecAddTimeout)
    /\ WF_vars(RecvRemoveWorker)

SpecChan == InitDriver /\ [][NextChan]_vars /\ ReconcilerFairness

NextRecon ==
    \/ DriverStart
    \/ WatchApplied(WatchEndpoints({"g1"}, DiscAddressLists), Some(MaxDiscEvents))
    \/ WatchDeleted({"g1"}, Some(MaxDiscEvents))
    \/ SendAddWorker
    \/ SendRemoveWorker
    \/ SendDeletedRemove
    \/ RecvAddWorker
    \/ RecAddProbeOk
    \/ RecAddTimeout
    \/ RecvRemoveWorker

SpecRecon ==
    /\ InitSystem(ReconConfigs, InitialWorkerLists)
    /\ [][NextRecon]_vars
    /\ ReconcilerFairness

\* Proxied health checks and routed generation requests over a fixed worker
\* set.
InitHttp ==
    InitSystem(SystemConfigs,
               {<<>>, <<Url1>>, <<Url1, Url2>>, <<Url1, Url2, Url3>>, <<Url3, Url1>>})

NextHttp ==
    \/ Health
    \/ Generate
    \/ ProxyAnswer

SpecHttp == InitHttp /\ [][NextHttp]_vars

\* The other proxied endpoints next to POST /generate: the GET endpoints go
\* to the first worker, the POST endpoints share the round-robin cursor.
NextProxy ==
    \/ HealthGenerate
    \/ GetServerInfo
    \/ V1Models
    \/ GetModelInfo
    \/ Generate
    \/ V1ChatCompletions
    \/ V1Completions
    \/ ProxyAnswer

SpecProxy ==
    InitSystem(SystemConfigs, {<<>>, <<Url1, Url2>>}) /\ [][NextProxy]_vars

\* Unmatched requests next to routed generation requests.
NextSink ==
    \/ Generate
    \/ ProxyAnswer
    \/ SinkRequest
    \/ SinkChunkOk
    \/ SinkChunkErr
    \/ SinkEnd

SpecSink == InitHttp /\ [][NextSink]_vars

\* Startup from Router.start() on, with the supervising task it spawns.
NextStart ==
    \/ RouterStart
    \/ AppStateNewOk
    \/ AppStateNewErr
    \/ StartDiscovery
    \/ BindOk
    \/ BindErr
    \/ DriverStartFails
    \/ DriverStart
    \/ StreamError
    \/ StreamEnd
    \/ BackoffElapsed

SpecStart == InitStart /\ [][NextStart]_vars

\* Startup with a fairly scheduled supervising task: the runtime schedules
\* it, so a call of the driver either fails or opens the watch, and the 10 s
\* sleep ends.  A watch may last forever, so nothing forces StreamError or
\* StreamEnd.
SpecSupervised ==
    /\ InitStart
    /\ [][NextStart]_vars
    /\ WF_vars(DriverStartFails \/ DriverStart)
    /\ WF_vars(BackoffElapsed)

\* Rendering alone: any configuration and any Endpoints object.
InitRender ==
    /\ config \in Configs
    /\ endpoints \in RenderEndpoints
    /\ new_urls = {}
    /\ known_endpoints = EmptyMap
    /\ drv_pc = "render"
    /\ urls_to_add = {}
    /\ urls_to_remove = {}
    /\ state_urls = {}
    /\ queue = <<>>
    /\ rec_pc = "recv"
    /\ rec_url = <<>>
    /\ rec_log = "none"
    /\ registry = <<>>
    /\ admin = [i \in 1..MaxAdmin |-> AdminIdle]
    /\ response = NoResponse
    /\ handled = NoRequest
    /\ received = NoneReceived
    /\ inflight = NoneReceived
    /\ cursor = 0
    /\ sink = SinkIdle
    /\ last_event = NoEvent
    /\ batch = <<>>
    /\ requested_run = {}
    /\ requested_all = {}
    /\ last_exit = "none"
    /\ slept = FALSE
    /\ n_events = 0
    /\ recv_parity = 0
    /\ env = NoEnv
    /\ args = ArgsOf(config, registry)
    /\ server = Serving(args, env)

\* Lines 126-169 on the object.
Render ==
    /\ drv_pc = "render"
    /\ new_urls' = RenderUrls(config, endpoints)
    /\ drv_pc' = "rendered"
    /\ UNCHANGED <<config, endpoints, known_endpoints, urls_to_add,
                   urls_to_remove, state_urls, queue, reconcilerVars, registry,
                   adminVars, last_event, batch, requested_run, requested_all,
                   last_exit, slept, n_events>>

SpecRender == InitRender /\ [][Render]_vars

-----------------------------------------------------------------------------
(* Properties of the discovery diff *)

\* How often cmd was passed to sender.send for the last event.
BatchCount(cmd) == Cardinality({ i \in DOMAIN batch : batch[i] = cmd })

EventUrls ==
    last_event.new \cup last_event.prev \cup { batch[i].url : i \in DOMAIN batch }

\* The driver has left the send loops of the last event.
EventDone == drv_pc \notin {"sending", "deleting"}

\* C1: with a single group, once the driver has sent every command of an
\* Added/Modified event, the commands emitted since the driver started with an
\* empty EndpointState, applied in emission order to the empty set, give
\* exactly the URL set rendered from that event.
DiffSingleGroup ==
    (last_event.type = "Applied" /\ EventDone) => requested_run = last_event.new

C1_Witness ==
    /\ last_event.type = "Applied"
    /\ drv_pc = "watch"
    /\ last_event.prev = {Url1, Url2}
    /\ last_event.new = {Url2, Url3}
    /\ requested_run = {Url2, Url3}
    /\ Len(batch) = 2

\* C2: for an Added/Modified event of group G with rendered set N and stored
\* set P, the driver emits AddWorker(u) exactly once for each u in N \ P,
\* RemoveWorker(u) exactly once for each u in P \ N, nothing for other urls
\* (N \cap P included), and EndpointState[G] = N afterwards.
PerEventDiff ==
    last_event.type = "Applied" =>
        LET N == last_event.new
            P == last_event.prev
        IN /\ last_event.name \in DOMAIN known_endpoints
           /\ known_endpoints[last_event.name] = N
           /\ \A u \in EventUrls :
                /\ BatchCount(AddWorker(u)) <= (IF u \in N \ P THEN 1 ELSE 0)
                /\ BatchCount(RemoveWorker(u)) <= (IF u \in P \ N THEN 1 ELSE 0)
                /\ EventDone =>
                     /\ BatchCount(AddWorker(u)) = (IF u \in N \ P THEN 1 ELSE 0)
                     /\ BatchCount(RemoveWorker(u)) = (IF u \in P \ N THEN 1 ELSE 0)

C2_Witness ==
    /\ last_event.type = "Applied"
    /\ drv_pc = "watch"
    /\ last_event.prev = {Url1, Url2}
    /\ last_event.new = {Url2, Url3}
    /\ batch = <<AddWorker(Url3), RemoveWorker(Url1)>>
    /\ known_endpoints[last_event.name] = {Url2, Url3}

\* C3: on a Deleted event for group G the driver emits RemoveWorker(u) exactly
\* once for every url u stored for G and for no other url, emits no AddWorker,
\* and G is no longer in EndpointState; nothing is emitted for an unknown G.
GroupDelete ==
    last_event.type = "Deleted" =>
        /\ last_event.name \notin DOMAIN known_endpoints
        /\ \A u \in EventUrls :
             /\ BatchCount(AddWorker(u)) = 0
             /\ BatchCount(RemoveWorker(u)) <= (IF u \in last_event.prev THEN 1 ELSE 0)
             /\ EventDone =>
                  BatchCount(RemoveWorker(u)) = (IF u \in last_event.prev THEN 1 ELSE 0)

C3_Witness ==
    /\ last_event.type = "Deleted"
    /\ drv_pc = "watch"
    /\ last_event.name = "g1"
    /\ last_event.prev = {Url1, Url2}
    /\ Len(batch) = 2
    /\ "g2" \in DOMAIN known_endpoints
    /\ known_endpoints["g2"] = {Url2, Url3}

InitialWorkers == UNION { Range(l) : l \in InitialWorkerLists }

\* The reconciler has consumed every queued command and none is outstanding.
Reconciled == EventDone /\ queue = <<>> /\ rec_pc = "recv"

\* C4: after the driver reported group G with urls P and then G deleted, once
\* the reconciler has consumed all queued commands no url of P is in the
\* registry, whatever the probes of the adds did, and the registry holds only
\* other workers.
DeleteReachesRegistry ==
    (last_event.type = "Deleted" /\ Reconciled) =>
        /\ last_event.prev \cap Range(registry) = {}
        /\ Range(registry) \subseteq (InitialWorkers \cup requested_all) \ last_event.prev

C4_Witness ==
    /\ last_event.type = "Deleted"
    /\ Reconciled
    /\ last_event.prev = {Url1, Url2}
    /\ batch # <<>>
    /\ rec_log = "removed"
    /\ registry = <<>>

\* C5: after a restart of the driver the commands emitted so far, before and
\* after the restart, imply the url set of the first event handled after it.
ResyncAfterRestart ==
    (last_event.type = "Applied" /\ EventDone) => requested_all = last_event.new

\* C6: the driver is never started again without the supervising task having
\* slept since the driver terminated.
BackoffBeforeRestart ==
    [][(drv_pc = "start" /\ drv_pc' # "start" /\ last_exit # "none") => slept]_vars

-----------------------------------------------------------------------------
(* Properties of the channel and the registry *)

\* A command waiting in one of the send loops leaves it only by being queued.
PendingKept ==
    /\ \A u \in urls_to_add :
         u \in urls_to_add' \/ queue' = Append(queue, AddWorker(u))
    /\ \A u \in urls_to_remove :
         u \in urls_to_remove' \/ queue' = Append(queue, RemoveWorker(u))
    /\ \A u \in state_urls :
         u \in state_urls' \/ queue' = Append(queue, RemoveWorker(u))

\* C7: the channel never holds more than 100 commands; a command the driver
\* cannot queue stays pending until it is queued; the reconciler takes queued
\* commands from the head only; and every queued command is eventually
\* received.
ChannelBoundedNoLoss ==
    /\ [](Len(queue) <= ChannelCapacity)
    /\ [][PendingKept]_vars
    /\ [][\/ queue' = queue
          \/ queue # <<>> /\ queue' = Tail(queue)
          \/ Len(queue') = Len(queue) + 1 /\ SubSeq(queue', 1, Len(queue)) = queue]_vars
    /\ \A b \in {0, 1} : (queue # <<>> /\ recv_parity = b) ~> (recv_parity # b)

C7_Witness ==
    /\ Len(queue) = ChannelCapacity
    /\ drv_pc = "sending"
    /\ urls_to_add # {}

NoDuplicates(reg) == \A i, j \in DOMAIN reg : reg[i] = reg[j] => i = j

\* C8: the Ready sequence never holds a url twice, and an add (from the
\* reconciler or from the admin endpoint) that finishes while its url is
\* present fails and leaves the registry unchanged.
NoDuplicateWorkers ==
    /\ [] NoDuplicates(registry)
    /\ [][(rec_pc = "adding" /\ rec_pc' = "recv" /\ rec_url \in Range(registry))
            => (rec_log' \in {"exists", "timeout"} /\ registry' = registry)]_vars
    /\ [][\A i \in DOMAIN admin :
            (admin[i].pc = "probing" /\ admin'[i].pc = "idle"
               /\ admin[i].url \in Range(registry))
            => (response'.status = 400 /\ registry' = registry)]_vars

C8_Witness ==
    /\ rec_log = "added"
    /\ response = Respond("add_worker", 400, "exists")
    /\ registry = <<Url1>>
    /\ n_events > 0

-----------------------------------------------------------------------------
(* Properties of the rendering *)

EpSubsets == IF IsSome(endpoints.subsets) THEN Unwrap(endpoints.subsets) ELSE <<>>

AddressesOf(subset) ==
    IF IsSome(subset.addresses) THEN Unwrap(subset.addresses) ELSE <<>>

PortsOf(subset) == IF IsSome(subset.ports) THEN Unwrap(subset.ports) ELSE <<>>

\* The (address, port) pairs of the object that have an ip and a port number.
Renderable ==
    UNION { { <<AddressesOf(EpSubsets[s])[a], PortsOf(EpSubsets[s])[p]>> :
                a \in { x \in DOMAIN AddressesOf(EpSubsets[s]) :
                          IsSome(AddressesOf(EpSubsets[s])[x].ip) },
                p \in { y \in DOMAIN PortsOf(EpSubsets[s]) :
                          IsSome(PortsOf(EpSubsets[s])[y].port) } } :
            s \in DOMAIN EpSubsets }

UrlOf(pair) == WorkerUrl(config, Unwrap(pair[1].ip), Unwrap(pair[2].port))

\* C9: with port_name set, a port contributes its url for an address exactly
\* if its name equals port_name (other names and unnamed ports are skipped);
\* with port_name unset, every port contributes a url for every address; and
\* new_urls holds nothing else.
PortFiltering ==
    drv_pc = "rendered" =>
        /\ \A pair \in Renderable :
             UrlOf(pair) \in new_urls <=>
                 (IsSome(config.port_name) => pair[2].name = config.port_name)
        /\ \A u \in new_urls : \E pair \in Renderable : u = UrlOf(pair)

C9_Witness ==
    /\ drv_pc = "rendered"
    /\ config.port_name = Some(StrHttp)
    /\ \E pair \in Renderable : ~IsSome(pair[2].name)
    /\ \E pair \in Renderable : pair[2].name = Some(StrMetrics)
    /\ \E pair \in Renderable : pair[2].name = Some(StrHttp) /\ UrlOf(pair) \in new_urls
    /\ Cardinality(new_urls) = 2

\* The first port of a list that has a number.
FirstAvailable(ports) ==
    ports[CHOOSE p \in DOMAIN ports :
            /\ IsSome(ports[p].port)
            /\ \A q \in DOMAIN ports : IsSome(ports[q].port) => p <= q]

HasAvailable(ports) == \E p \in DOMAIN ports : IsSome(ports[p].port)

\* C10: with port_name unset, each address of a subset yields exactly one url,
\* built from the first available port of the subset.
FirstPortOnly ==
    (drv_pc = "rendered" /\ ~IsSome(config.port_name)) =>
        new_urls =
            UNION { { WorkerUrl(config, Unwrap(AddressesOf(EpSubsets[s])[a].ip),
                                Unwrap(FirstAvailable(PortsOf(EpSubsets[s])).port)) :
                        a \in { x \in DOMAIN AddressesOf(EpSubsets[s]) :
                                  IsSome(AddressesOf(EpSubsets[s])[x].ip) } } :
                    s \in { t \in DOMAIN EpSubsets : HasAvailable(PortsOf(EpSubsets[t])) } }

-----------------------------------------------------------------------------
(* Properties of the URL format *)

\* The (address, port) pairs that pass the port filter of lines 138-146.
Selected ==
    { pair \in Renderable :
        IsSome(config.port_name) => pair[2].name = config.port_name }

DigitValue(c) == CHOOSE d \in 0..9 : Digits[d + 1] = c

RECURSIVE ParseNat(_)
ParseNat(s) ==
    IF Len(s) = 0 THEN 0
    ELSE 10 * ParseNat(SubSeq(s, 1, Len(s) - 1)) + DigitValue(s[Len(s)])

\* s is the decimal numeral of the natural number n, without leading zeros.
IsDecimalOf(s, n) ==
    /\ Len(s) > 0
    /\ \A i \in DOMAIN s : \E d \in DOMAIN Digits : Digits[d] = s[i]
    /\ Len(s) > 1 => s[1] # "0"
    /\ ParseNat(s) = n

\* p is worker_path normalised: empty stays empty, a path starting with "/"
\* is unchanged, any other path gets exactly one "/" prepended.
IsNormalisedPath(p, worker_path) ==
    /\ starts_with(p, "/") <=> ~is_empty(worker_path)
    /\ is_empty(worker_path) => p = worker_path
    /\ starts_with(worker_path, "/") => p = worker_path
    /\ (~is_empty(worker_path) /\ ~starts_with(worker_path, "/"))
          => p = <<"/">> \o worker_path

\* u reads protocol "://" ip ":" port path for the pair.
IsUrlOf(u, pair) ==
    LET pre == config.protocol \o <<":", "/", "/">> \o Unwrap(pair[1].ip) \o <<":">>
    IN /\ HasPrefix(u, pre)
       /\ \E k \in (Len(pre) + 1)..Len(u) :
            /\ IsDecimalOf(SubSeq(u, Len(pre) + 1, k), Unwrap(pair[2].port))
            /\ IsNormalisedPath(SubSeq(u, k + 1, Len(u)), config.worker_path)

\* C11: every url of new_urls is protocol "://" address ":" port path of a
\* selected (address, port), with the port in decimal and path the normalised
\* worker_path; every selected pair has its url in new_urls; and pairs with
\* the same address and port number give one url.
UrlRendering ==
    drv_pc = "rendered" =>
        /\ \A u \in new_urls : \E pair \in Selected : IsUrlOf(u, pair)
        /\ \A pair \in Selected : \E u \in new_urls : IsUrlOf(u, pair)
        /\ Cardinality(new_urls) =
               Cardinality({ <<pair[1].ip, pair[2].port>> : pair \in Selected })

C11_Witness ==
    /\ drv_pc = "rendered"
    /\ config = MkConfig(None, StrHttps, PathRel)
    /\ Len(EpSubsets) = 2
    /\ EpSubsets[1] = MkSubset(Some(<<MkAddress(Some(Ip1))>>), Some(<<PortHttp>>))
    /\ EpSubsets[2] = EpSubsets[1]
    /\ new_urls = {<<"h", "t", "t", "p", "s", ":", "/", "/", "h", "1", ":", "8", "0", "/", "v">>}

-----------------------------------------------------------------------------
(* Properties of the admin handlers *)

\* Connection i gets its answer from add_worker in this step.
AddAnswered(i) == admin[i].pc = "probing" /\ admin'[i].pc = "idle"

\* C12: POST /add_worker with a url calls add_worker(url) exactly once and
\* answers 200 with the success message exactly if the add succeeded (the url
\* was appended to the registry), else 400 with the failure reason and the
\* registry as it was; without a url it answers 400, calls nothing and leaves
\* the registry unchanged.
AddWorkerContract ==
    /\ [](response.handler = "add_worker" =>
            IF IsSome(handled.query)
            THEN /\ handled.calls = <<RegistryCall("add", Unwrap(handled.query))>>
                 /\ response.status \in {200, 400}
                 /\ response.status = 200 <=> response.result = "added"
                 /\ response.status = 400 <=>
                        response.result \in {"exists", "timeout", "invalid"}
            ELSE /\ handled.calls = <<>>
                 /\ response = Respond("add_worker", 400, "missing"))
    /\ [](\A i \in DOMAIN admin :
            admin[i].pc = "probing" =>
                admin[i].calls = <<RegistryCall("add", admin[i].url)>>)
    /\ [][\A i \in DOMAIN admin :
            AddAnswered(i) =>
                /\ response'.handler = "add_worker"
                /\ handled' = Request(Some(admin[i].url), admin[i].calls)
                /\ response'.status = 200 <=>
                       /\ admin[i].url \notin Range(registry)
                       /\ registry' = Append(registry, admin[i].url)
                /\ response'.status # 200 => registry' = registry]_vars
    /\ [][(response'.handler = "add_worker" /\ ~IsSome(handled'.query)
             /\ <<response, handled>> # <<response', handled'>>)
            => (registry' = registry /\ admin' = admin)]_vars

C12_Witness ==
    /\ response = Respond("add_worker", 200, "added")
    /\ handled = Request(Some(Url1), <<RegistryCall("add", Url1)>>)
    /\ registry = <<Url2, Url1>>
    /\ \A i \in DOMAIN admin : admin[i].pc = "idle"

\* An add_worker request without url parameter was answered.
C12_MissingSeen ==
    /\ response = Respond("add_worker", 400, "missing")
    /\ handled = Request(None, <<>>)
    /\ registry = <<Url2, Url1>>

\* A remove_worker request is answered in this step: only the registry and
\* the answer change.
RemoveAnswered ==
    /\ response'.handler = "remove_worker"
    /\ UNCHANGED <<admin, queue, reconcilerVars, driverVars>>

\* C13: POST /remove_worker with a url calls remove_worker(url) once and
\* answers 200, whether or not the url is in the registry: afterwards the
\* url is absent, the other workers keep their order, and removing it again
\* changes nothing; without a url it answers 400, calls nothing and leaves
\* the registry unchanged.
RemoveWorkerContract ==
    /\ [](response.handler = "remove_worker" =>
            IF IsSome(handled.query)
            THEN /\ handled.calls = <<RegistryCall("remove", Unwrap(handled.query))>>
                 /\ response.status = 200
            ELSE /\ handled.calls = <<>>
                 /\ response.status = 400)
    /\ [][RemoveAnswered =>
            IF IsSome(handled'.query)
            THEN /\ Unwrap(handled'.query) \notin Range(registry')
                 /\ registry' = SelectSeq(registry, LAMBDA w : w # Unwrap(handled'.query))
                 /\ Unwrap(handled'.query) \notin Range(registry) => registry' = registry
                 /\ RegistryRemove(registry', Unwrap(handled'.query)) = registry'
            ELSE registry' = registry]_vars

C13_Witness ==
    /\ response = Respond("remove_worker", 200, "removed")
    /\ handled = Request(Some(UrlBad), <<RegistryCall("remove", UrlBad)>>)
    /\ registry = <<Url2, Url1>>

\* A remove_worker request took a worker out of the registry.
C13_RemovedSeen ==
    /\ response = Respond("remove_worker", 200, "removed")
    /\ handled = Request(Some(Url1), <<RegistryCall("remove", Url1)>>)
    /\ registry = <<Url2>>

-----------------------------------------------------------------------------
(* Properties of the proxied and unmatched requests *)

\* n / k rounded up.
CeilDiv(n, k) == (n + k - 1) \div k

\* C14, as claimed: with k workers and no membership change, the GET /health
\* calls so far are spread so that every worker received floor(N/k) or
\* ceil(N/k) of them; with three workers and 9 calls each received 3.
HealthRoundRobin ==
    registry # <<>> =>
        \A w \in Range(registry) :
            /\ Count("/health", w) >= Total("/health") \div Len(registry)
            /\ Count("/health", w) <= CeilDiv(Total("/health"), Len(registry))

\* C14, amended: with no membership change every GET /health call is
\* forwarded to the first worker in registry order and to no other worker,
\* and the round-robin cursor moves only with the routed generation
\* requests; without workers nothing is forwarded.
HealthToFirst ==
    /\ registry # <<>> =>
         /\ Count("/health", registry[1]) = Total("/health")
         /\ \A i \in DOMAIN registry : i > 1 => Count("/health", registry[i]) = 0
    /\ registry = <<>> => Total("/health") = 0
    /\ cursor = Total("/generate")

C14_Witness ==
    /\ registry = <<Url1, Url2, Url3>>
    /\ Total("/health") = 9
    /\ Count("/health", Url1) = 9
    /\ Count("/health", Url2) = 0
    /\ Count("/health", Url3) = 0
    /\ cursor = 3
    /\ Count("/generate", Url2) = 1

-----------------------------------------------------------------------------
(* Properties of startup *)

\* The driver has been handed its configuration.
DiscoveryRunning == server.supervisor

\* C15: with discovery enabled, every discovery option the caller did not
\* pass has, in the configuration handed to the driver, the value of its
\* environment variable if that is set and the built-in default otherwise.
EnvOverrides ==
    DiscoveryRunning =>
        /\ ~IsSome(args.k8s_label_selector) =>
               config.label_selector = DefaultK8sConfig(env).label_selector
        /\ ~IsSome(args.k8s_port_name) =>
               config.port_name = DefaultK8sConfig(env).port_name
        /\ ~IsSome(args.k8s_protocol) =>
               config.protocol = DefaultK8sConfig(env).protocol
        /\ ~IsSome(args.k8s_worker_path) =>
               config.worker_path = DefaultK8sConfig(env).worker_path

\* Router::new was called and could not construct the router.
ConstructionFailed ==
    /\ server.pc \notin {"created", "app_state"}
    /\ \E i \in DOMAIN args.worker_urls : ~ValidUrl(args.worker_urls[i])

\* C16: when constructing the router from worker_urls fails, startup returns
\* that error and has started neither the supervising task of discovery nor
\* the reconciler nor the HTTP server; a driver that fails to start leaves
\* startup alone, and startup always goes on from its discovery step to
\* binding the server.
StartupAbort ==
    /\ [](ConstructionFailed =>
            /\ server.pc = "failed"
            /\ server.result = "router_error"
            /\ ~server.supervisor /\ ~server.reconciler /\ ~server.bound
            /\ drv_pc = "unspawned" /\ rec_pc = "unspawned"
            /\ registry = <<>>)
    /\ [][(server.pc = "discovery" /\ server' # server) => server'.pc = "bind"]_vars
    /\ [][(drv_pc # "backoff" /\ drv_pc' = "backoff") => server' = server]_vars
    /\ [](server.result = "router_error" => ConstructionFailed)

C16_Witness ==
    /\ server.pc = "failed"
    /\ server.result = "router_error"
    /\ args.worker_urls = <<UrlBad>>
    /\ args.enable_k8s_discovery = Some(TRUE)
    /\ ~server.supervisor
    /\ ~server.bound

\* The driver failed to start and the server is running.
C16_DriverFailedServing ==
    /\ server.pc = "serving"
    /\ server.bound
    /\ last_exit = "err"
    /\ drv_pc = "backoff"
    /\ n_events = 0

\* The endpoints the spec lists, as (method, path).
ListedEndpoints ==
    {<<"GET", "/health">>, <<"GET", "/health_generate">>,
     <<"GET", "/get_server_info">>, <<"GET", "/get_model_info">>,
     <<"GET", "/v1/models">>, <<"POST", "/generate">>,
     <<"POST", "/v1/chat/completions">>, <<"POST", "/v1/completions">>,
     <<"POST", "/add_worker">>, <<"POST", "/remove_worker">>}

\* C17: a request outside the listed endpoints, and only such a request, is
\* handled by sink_handler; the handler answers 404 and nothing else, either
\* when the whole body has been read or when reading a chunk failed; and no
\* step of the handler changes the registry, the round-robin cursor, the
\* forwarded requests or the admin requests.
UnmatchedRoutes ==
    /\ [](sink.pc = "draining" => <<sink.method, sink.path>> \notin ListedEndpoints)
    /\ [](\A m \in Methods, p \in Paths :
            <<m, p>> \notin ListedEndpoints => Route(m, p) = "sink")
    /\ [](response.handler = "sink" => response.status = 404)
    /\ [][(sink.pc = "draining" /\ sink'.pc = "idle") =>
            /\ response' = Respond("sink", 404, "not_found")
            /\ IF sink'.failed
               THEN sink.payload # <<>> /\ Head(sink.payload) = "err"
               ELSE sink.payload = <<>>]_vars
    /\ [][(sink.pc = "draining" /\ sink'.pc = "draining" /\ sink' # sink) =>
            /\ sink.payload # <<>> /\ Head(sink.payload) = "ok"
            /\ sink'.payload = Tail(sink.payload)
            /\ response' = response]_vars
    /\ [][sink' # sink =>
            UNCHANGED <<registry, cursor, received, admin, handled>>]_vars

C17_Witness ==
    /\ response = Respond("sink", 404, "not_found")
    /\ sink.pc = "idle"
    /\ sink.method = "POST"
    /\ sink.path = "/health"
    /\ sink.failed
    /\ sink.drained = 1
    /\ sink.payload = <<"err">>
    /\ registry = <<Url1, Url2>>
    /\ cursor = 1

\* An unmatched request whose body was read to its end.
C17_DrainedSeen ==
    /\ response = Respond("sink", 404, "not_found")
    /\ sink.pc = "idle"
    /\ sink.path = "/nope"
    /\ ~sink.failed
    /\ sink.drained = 2
    /\ sink.payload = <<>>

-----------------------------------------------------------------------------
(* Properties of the discovery diff over several groups *)

\* The urls last observed for the groups that still exist.
KnownUnion == UNION { known_endpoints[g] : g \in DOMAIN known_endpoints }

\* C18: over several groups, once the driver has sent every command of an
\* event, the commands emitted since it started, applied in emission order
\* to the empty set, give the union of the url sets last observed for the
\* groups that still exist.
MultiGroupDiff == EventDone => requested_run = KnownUnion

-----------------------------------------------------------------------------
(* Properties of the reconciler *)

\* The reconciler takes a command from the channel in this step.
Received == queue # <<>> /\ queue' = Tail(queue)

\* C19: the reconciler takes a command only when the call for the command
\* before has returned; an AddWorker it took stays the one in progress, with
\* the registry as it is, until its add returns; the registry changes only
\* by the add in progress returning or by the RemoveWorker just taken; so
\* once all commands are consumed no url whose RemoveWorker was sent for the
\* last event is in the registry.
OneCommandAtATime ==
    /\ [][Received => rec_pc = "recv"]_vars
    /\ [][(Received /\ Head(queue).op = "AddWorker") =>
            /\ registry' = registry
            /\ rec_pc' = "adding" => rec_url' = Head(queue).url]_vars
    /\ [][(rec_pc = "adding" /\ rec_pc' = "adding") =>
            /\ rec_url' = rec_url
            /\ registry' = registry
            /\ ~Received]_vars
    /\ [][registry' # registry =>
            \/ /\ rec_pc = "adding" /\ rec_pc' = "recv"
               /\ registry' = Append(registry, rec_url)
            \/ /\ Received /\ Head(queue).op = "RemoveWorker"
               /\ registry' = RegistryRemove(registry, Head(queue).url)]_vars
    /\ [](Reconciled =>
            \A i \in DOMAIN batch :
                batch[i].op = "RemoveWorker" => batch[i].url \notin Range(registry))

C19_Witness ==
    /\ rec_pc = "adding"
    /\ rec_url = Url1
    /\ queue = <<RemoveWorker(Url1)>>
    /\ registry = <<>>
    /\ last_event.type = "Applied"
    /\ EventDone

-----------------------------------------------------------------------------
(* Properties of the supervising task *)

\* The supervising task is in its loop: calling the driver, inside the
\* driver's watch, or sleeping after an error.
InLoop == drv_pc \in {"start", "watch", "backoff"}

\* The driver returns in this step.
DriverReturns ==
    /\ drv_pc \in {"start", "watch"}
    /\ drv_pc' # drv_pc
    /\ drv_pc' # "watch"

\* C20: with discovery enabled and configured, startup always gets the
\* receiver: it spawns the supervising task and the reconciler and goes on
\* to bind; the spawned tasks start running when the server runs (they are
\* dropped unpolled only when startup itself fails at bind, which is no
\* discovery error); once running the supervising task never leaves its
\* loop; a return of the driver is recorded and leaves startup and the server
\* as they are; and after every return of the driver the driver is
\* eventually called again, and the call eventually opens the watch or fails.
ErrorsRetried ==
    /\ [][(/\ server.pc = "discovery"
           /\ server'.pc # "discovery"
           /\ Unwrap(server.config).enable_k8s_discovery
           /\ IsSome(Unwrap(server.config).k8s_discovery_config)) =>
            /\ server'.pc = "bind"
            /\ server'.supervisor /\ server'.reconciler
            /\ drv_pc' = "spawned" /\ rec_pc' = "spawned"]_vars
    /\ [][(drv_pc = "spawned" /\ drv_pc' # "spawned") =>
            IF server'.pc = "serving"
            THEN drv_pc' = "start" /\ rec_pc' = "recv"
            ELSE /\ server.pc = "bind" /\ server'.result = "bind_error"
                 /\ drv_pc' = "dropped" /\ rec_pc' = "dropped"]_vars
    /\ [](server.pc = "serving" /\ server.supervisor => InLoop)
    /\ [](InLoop => server.pc = "serving" /\ server.supervisor)
    /\ [][InLoop => InLoop']_vars
    /\ [][DriverReturns =>
            /\ last_exit' \in {"ok", "err"}
            /\ drv_pc' = (IF last_exit' = "err" THEN "backoff" ELSE "start")
            /\ server' = server
            /\ rec_pc' = rec_pc]_vars
    /\ (drv_pc = "backoff") ~> (drv_pc = "start")
    /\ (drv_pc = "start") ~> (drv_pc \in {"watch", "backoff"})

C20_Witness ==
    /\ server.supervisor
    /\ server.pc = "serving"
    /\ last_exit = "err"
    /\ slept
    /\ drv_pc = "watch"

-----------------------------------------------------------------------------
(* Properties of the order of the commands of one event *)

\* The urls of the AddWorker commands in a sequence of commands.
AddsIn(cmds) == { cmds[i].url : i \in { j \in DOMAIN cmds : cmds[j].op = "AddWorker" } }

\* The newcomers of the last Added/Modified event.
Newcomers == last_event.new \ last_event.prev

\* The head of the channel is a command of the last event: the channel holds
\* a suffix of the emitted commands, and batch is their end.
HeadOfLastEvent == queue # <<>> /\ Len(queue) <= Len(batch)

\* C21: in the commands sent for one Added/Modified event no AddWorker comes
\* after a RemoveWorker; a RemoveWorker is sent only when an AddWorker has
\* been sent for every newcomer of the event; and when the reconciler takes a
\* RemoveWorker of the event, no AddWorker is waiting in the channel or in
\* progress, so the adds of all newcomers have returned.
AddsBeforeRemoves ==
    /\ [](last_event.type = "Applied" =>
            \A i, j \in DOMAIN batch :
                (i < j /\ batch[i].op = "RemoveWorker") => batch[j].op = "RemoveWorker")
    /\ [][(/\ last_event.type = "Applied"
           /\ Len(batch') = Len(batch) + 1
           /\ batch'[Len(batch')].op = "RemoveWorker") =>
            /\ urls_to_add = {}
            /\ AddsIn(batch) = Newcomers]_vars
    /\ [][(/\ last_event.type = "Applied"
           /\ HeadOfLastEvent
           /\ Received
           /\ Head(queue).op = "RemoveWorker") =>
            /\ AddsIn(batch) = Newcomers
            /\ AddsIn(queue) = {}
            /\ rec_pc = "recv"
            /\ rec_url = <<>>]_vars

C21_Witness ==
    /\ last_event.type = "Applied"
    /\ batch = <<AddWorker(Url2), RemoveWorker(Url1)>>
    /\ queue = <<RemoveWorker(Url1)>>
    /\ rec_pc = "recv"
    /\ rec_log = "added"
    /\ registry = <<Url1, Url2>>

-----------------------------------------------------------------------------
(* Properties of failed discovery adds *)

\* The last call of the reconciler was an add that failed.
AddFailed == rec_log \in {"invalid", "exists", "timeout"}

\* The add of the reconciler returns in this step.
AddReturns ==
    \/ rec_pc = "adding" /\ rec_pc' = "recv"
    \/ Received /\ Head(queue).op = "AddWorker" /\ rec_pc' = "recv"

\* C22: the reconciler never leaves its loop; an add that returns with a
\* failure (invalid url, url already registered, probe timeout) is logged
\* with its cause, leaves the registry unchanged and the reconciler at recv;
\* there a waiting command can always be taken; and with a fairly scheduled
\* reconciler the commands waiting after a failed add are all consumed.
FailedAddGoesOn ==
    /\ [](rec_pc \in {"recv", "adding"})
    /\ [][(AddReturns /\ AddFailed') =>
            /\ registry' = registry
            /\ rec_pc' = "recv"
            /\ rec_log' = "invalid" <=> rec_pc = "recv"
            /\ rec_log' = "invalid" => ~ValidUrl(Head(queue).url)
            /\ rec_log' = "exists" => rec_url \in Range(registry)]_vars
    /\ [][(AddReturns /\ ~AddFailed') =>
            /\ rec_log' = "added"
            /\ rec_url \notin Range(registry)
            /\ registry' = Append(registry, rec_url)]_vars
    /\ []((rec_pc = "recv" /\ queue # <<>>) =>
            ENABLED (RecvAddWorker \/ RecvRemoveWorker))
    /\ (AddFailed /\ queue # <<>>) ~> (queue = <<>> /\ rec_pc = "recv")

C22_Witness ==
    /\ rec_log = "timeout"
    /\ rec_pc = "recv"
    /\ registry = <<>>
    /\ queue = <<RemoveWorker(Url1)>>

\* A rejected url and a duplicate, each with a later command waiting.
C22_InvalidSeen == rec_log = "invalid" /\ rec_pc = "recv" /\ Len(queue) = 1 /\ registry = <<>>

C22_DuplicateSeen == rec_log = "exists" /\ rec_pc = "recv" /\ queue # <<>> /\ registry = <<Url2, Url1>>

-----------------------------------------------------------------------------
(* Properties of the Bookmark and Error events *)

\* The stream delivers a Bookmark or an Error event in this step.
NoopDelivered ==
    /\ n_events' = n_events + 1
    /\ last_event'.type \in {"Bookmark", "Error"}

\* C23: a Bookmark or Error event sends no command and leaves the known
\* urls of every group as they are; the driver does not return: it is at
\* the watch stream before and after the event, with no send outstanding.
NoopEvents ==
    /\ [][NoopDelivered =>
            /\ queue' = queue
            /\ batch' = <<>>
            /\ requested_run' = requested_run
            /\ requested_all' = requested_all
            /\ known_endpoints' = known_endpoints
            /\ drv_pc = "watch" /\ drv_pc' = "watch"
            /\ last_exit' = last_exit
            /\ slept' = slept]_vars
    /\ [](last_event.type \in {"Bookmark", "Error"} =>
            /\ batch = <<>>
            /\ urls_to_add = {} /\ urls_to_remove = {} /\ state_urls = {}
            /\ EventDone)

C23_Witness ==
    /\ last_event.type = "Error"
    /\ drv_pc = "watch"
    /\ last_exit = "none"
    /\ KnownUrls(known_endpoints, "g1") = {Url1}
    /\ KnownUrls(known_endpoints, "g2") = {Url2}
    /\ queue = <<AddWorker(Url1), AddWorker(Url2)>>

C23_BookmarkSeen ==
    /\ last_event.type = "Bookmark"
    /\ drv_pc = "watch"
    /\ KnownUrls(known_endpoints, "g1") = {Url1, Url2}
    /\ Len(queue) = 2

====
